---------------------------- MODULE Spec2Model ----------------------------
(***************************************************************************)
(* A model of sysctl.c (procps 3.0.5): the key transcoder slashdot, the    *)
(* single-key accessors ReadSetting and WriteSetting, the preload          *)
(* processor Preload, the recursive enumerator DisplayAll and the          *)
(* dispatcher main.                                                        *)
(*                                                                         *)
(* C strings are sequences of one-character strings.  The program is       *)
(* sequential: each function is an operator over the I/O world             *)
(*   [fs, stdout, stderr, opened, calls]                                   *)
(* (the filesystem, the two output streams, the log of fopen/opendir       *)
(* attempts, and the log of accessor invocations), and main's argument     *)
(* loop is a state machine taking one step per loop iteration.             *)
(***************************************************************************)
EXTENDS Integers, Sequences, FiniteSets, TLC

VARIABLES
  pc,               \* position of the process under check
  fs,               \* filesystem: canonical path -> node
  stdout,           \* characters written to stdout
  stderr,           \* messages written to stderr: <<template, argument, number>>
  opened,           \* log of fopen/opendir attempts: [path, mode, errno]
  calls,            \* log of accessor invocations: [op, arg, path]
  PrintName,        \* sysctl.c:55
  PrintNewline,     \* sysctl.c:56
  argv,             \* main: the arguments after argv[0]
  argi,             \* main: index of *argv in argv
  SwitchesAllowed,  \* main, sysctl.c:89
  WriteMode,        \* main, sysctl.c:90
  ReturnCode,       \* main, sysctl.c:91
  status,           \* exit status of the process
  setting,          \* argument of the function under check
  rc,               \* return code of the function under check
  tmpname,          \* the name in path form (slashdot(.,'.','/'))
  outname           \* the name in key form (slashdot(.,'/','.'))

vars == <<pc, fs, stdout, stderr, opened, calls, PrintName, PrintNewline,
          argv, argi, SwitchesAllowed, WriteMode, ReturnCode, status,
          setting, rc, tmpname, outname>>

(***************************************************************************)
(* Bounds of the model.                                                    *)
(***************************************************************************)
MaxStrLen == 4       \* longest string handed to slashdot
MaxSettingLen == 4   \* longest setting handed to WriteSetting / ReadSetting
MaxContentLen == 4   \* longest file content read by ReadSetting
MaxLineLen == 4      \* longest free line of a preload source
MaxDepth == 2        \* depth of the directory tree below the root
MaxFaults == 2       \* most nodes of the tree that cannot be opened
MaxArgs == 3         \* most arguments on the command line

(***************************************************************************)
(* Characters and strings.                                                 *)
(***************************************************************************)
NUL == "\\0"
NL == "\n"
CR == "\r"
TAB == "\t"
SP == " "
DOT == "."
SLASH == "/"
EQ == "="

Min(S) == CHOOSE x \in S : \A y \in S : x <= y

Strings(alphabet, n) == UNION {[1..k -> alphabet] : k \in 0..n}

\* *(s+i-1), reading the terminating NUL past the end
CharAt(s, i) == IF i >= 1 /\ i <= Len(s) THEN s[i] ELSE NUL

\* the C string starting at s+i-1
From(s, i) == SubSeq(s, i, Len(s))

PROC_PATH == <<"/", "p", "r", "o", "c", "/", "s", "y", "s", "/">>
DEFAULT_PRELOAD ==
  <<"/", "e", "t", "c", "/", "s", "y", "s", "c", "t", "l", ".", "c", "o", "n", "f">>

(***************************************************************************)
(* slashdot, sysctl.c:71-81.                                               *)
(***************************************************************************)
\* strpbrk(p+i-1, "/."): index of the first delimiter at or after i, 0 if none
strpbrk(p, i) ==
  LET hits == {j \in i..Len(p) : p[j] \in {SLASH, DOT}}
  IN  IF hits = {} THEN 0 ELSE Min(hits)

\* the while loop of lines 75-80, entered with p at index i
RECURSIVE slashdotLoop(_, _, _, _)
slashdotLoop(p, i, old, new) ==
  IF i = 0 THEN p
  ELSE LET c == p[i]
           q == IF c = old THEN [p EXCEPT ![i] = new]
                ELSE IF c = new THEN [p EXCEPT ![i] = old]
                ELSE p
       IN  slashdotLoop(q, strpbrk(q, i + 1), old, new)

\* a slashdot without the early return of line 74
slashdotNoEarlyReturn(p, old, new) ==
  slashdotLoop(p, strpbrk(p, 1), old, new)

\* a slashdot whose loop stops after the first delimiter
slashdotFirstOnly(p, old, new) ==
  LET i == strpbrk(p, 1)
  IN  IF i = 0 THEN p
      ELSE IF p[i] = new THEN p
      ELSE [p EXCEPT ![i] = new]

slashdot(p, old, new) ==
  LET i == strpbrk(p, 1)
  IN  IF i = 0 THEN p
      ELSE IF p[i] = new THEN p
      ELSE slashdotLoop(p, i, old, new)

\* the two uses of slashdot in ReadSetting and WriteSetting
KeyToPath(name) == slashdot(name, DOT, SLASH)
PathToKey(name) == slashdot(name, SLASH, DOT)

(***************************************************************************)
(* The filesystem behind fopen, opendir, readdir and stat.  A node is      *)
(*   [type, err, statfail, content, entries]                               *)
(* type is "file" or "dir"; err is the errno of opening it (NOERR when it  *)
(* opens); statfail says that stat() on it fails; content is the bytes of  *)
(* a file; entries is what readdir returns for a directory, in order.      *)
(* /proc/sys is a virtual filesystem: opening a missing entry for writing  *)
(* does not create it.                                                     *)
(***************************************************************************)
NOERR == 0
ENOENT == 2
EIO == 5
EACCES == 13
ENOTDIR == 20
EISDIR == 21

\* the path as the kernel resolves it: "//" is "/", a trailing "/" is dropped
RECURSIVE Squeeze(_, _)
Squeeze(path, i) ==
  IF i > Len(path) THEN <<>>
  ELSE (IF path[i] = SLASH /\ i > 1 /\ path[i - 1] = SLASH
        THEN <<>> ELSE <<path[i]>>) \o Squeeze(path, i + 1)

Canon(path) ==
  LET q == Squeeze(path, 1)
  IN  IF Len(q) > 1 /\ q[Len(q)] = SLASH THEN SubSeq(q, 1, Len(q) - 1) ELSE q

\* errno of fopen(path, mode), NOERR when a stream is returned
Fopen(fsys, path, mode) ==
  LET c == Canon(path)
  IN  IF c \notin DOMAIN fsys THEN ENOENT
      ELSE IF fsys[c].err # NOERR THEN fsys[c].err
      ELSE IF fsys[c].type = "dir" /\ mode = "w" THEN EISDIR
      ELSE NOERR

\* the bytes a stream opened for reading delivers (none from a directory)
StreamOf(fsys, path) ==
  LET c == Canon(path)
  IN  IF fsys[c].type = "dir" THEN <<>> ELSE fsys[c].content

\* fgets(buf, size, fp) with the stream at offset pos: the bytes stored in buf,
\* <<>> for the NULL of end of file
fgets(content, pos, size) ==
  IF pos > Len(content) THEN <<>>
  ELSE LET lim == IF pos + size - 2 < Len(content)
                  THEN pos + size - 2 ELSE Len(content)
           nls == {j \in pos..lim : content[j] = NL}
       IN  SubSeq(content, pos, IF nls = {} THEN lim ELSE Min(nls))

\* index(s, c): index of the first c in s, 0 for NULL
index(s, c) ==
  LET hits == {j \in 1..Len(s) : s[j] = c}
  IN  IF hits = {} THEN 0 ELSE Min(hits)

Log(w, errs, opens, cs) ==
  [w EXCEPT !.stderr = @ \o errs, !.opened = @ \o opens, !.calls = @ \o cs]

(***************************************************************************)
(* WriteSetting, sysctl.c:252-324.                                         *)
(***************************************************************************)
ErrWriting(e, on) ==
  IF e = ENOENT THEN <<"ERR_INVALID_KEY", on, 0>>
  ELSE IF e = EACCES THEN <<"ERR_PERMISSION_DENIED", on, 0>>
  ELSE <<"ERR_UNKNOWN_WRITING", on, e>>

\* what lines 311-318 print for a value written
Echo(on, value, pn, pnl) ==
  IF pn THEN on \o <<SP, EQ, SP>> \o value \o <<NL>>
  ELSE IF pnl THEN value \o <<NL>>
  ELSE value

\* a WriteSetting that forgets rc = -1 when the file cannot be opened
WriteSettingNoRc(s, w, pn, pnl) ==
  LET equals == index(s, EQ)
      value == From(s, equals + 1)
      nm == SubSeq(s, 1, equals - 1)
      tn == PROC_PATH \o KeyToPath(nm)
      on == PathToKey(nm)
      e == Fopen(w.fs, tn, "w")
      call == [op |-> "Write", arg |-> s, path |-> <<>>]
  IN  IF equals = 0
      THEN [rc |-> -1, w |-> Log(w, <<<<"ERR_NO_EQUALS", s, 0>>>>, <<>>, <<call>>)]
      ELSE IF s = <<>> \/ value = <<>> \/ equals = 1
      THEN [rc |-> -2,
            w |-> Log(w, <<<<"ERR_MALFORMED_SETTING", s, 0>>>>, <<>>, <<call>>)]
      ELSE LET o == [path |-> tn, mode |-> "w", errno |-> e]
               c == [call EXCEPT !.path = tn]
           IN  IF e # NOERR
               THEN [rc |-> 0, w |-> Log(w, <<ErrWriting(e, on)>>, <<o>>, <<c>>)]
               ELSE [rc |-> 0,
                     w |-> [Log(w, <<>>, <<o>>, <<c>>) EXCEPT
                              !.fs[Canon(tn)].content = value \o <<NL>>,
                              !.stdout = @ \o Echo(on, value, pn, pnl)]]

WriteSetting(s, w, pn, pnl) ==
  LET equals == index(s, EQ)
      value == From(s, equals + 1)
      nm == SubSeq(s, 1, equals - 1)
      tn == PROC_PATH \o KeyToPath(nm)
      on == PathToKey(nm)
      e == Fopen(w.fs, tn, "w")
      call == [op |-> "Write", arg |-> s, path |-> <<>>]
  IN  IF equals = 0
      THEN [rc |-> -1, w |-> Log(w, <<<<"ERR_NO_EQUALS", s, 0>>>>, <<>>, <<call>>)]
      ELSE IF s = <<>> \/ value = <<>> \/ equals = 1
      THEN [rc |-> -2,
            w |-> Log(w, <<<<"ERR_MALFORMED_SETTING", s, 0>>>>, <<>>, <<call>>)]
      ELSE LET o == [path |-> tn, mode |-> "w", errno |-> e]
               c == [call EXCEPT !.path = tn]
           IN  IF e # NOERR
               THEN [rc |-> -1, w |-> Log(w, <<ErrWriting(e, on)>>, <<o>>, <<c>>)]
               ELSE [rc |-> 0,
                     w |-> [Log(w, <<>>, <<o>>, <<c>>) EXCEPT
                              !.fs[Canon(tn)].content = value \o <<NL>>,
                              !.stdout = @ \o Echo(on, value, pn, pnl)]]

(***************************************************************************)
(* ReadSetting, sysctl.c:332-387.                                          *)
(***************************************************************************)
INBUF == 1024

ErrReading(e, on) ==
  IF e = ENOENT THEN <<"ERR_INVALID_KEY", on, 0>>
  ELSE IF e = EACCES THEN <<"ERR_PERMISSION_DENIED", on, 0>>
  ELSE <<"ERR_UNKNOWN_READING", on, e>>

\* lines 371-379: what is printed for one buffer filled by fgets
ReadEmit(inbuf, on, pn, pnl) ==
  IF pn THEN on \o <<SP, EQ, SP>> \o inbuf
  ELSE IF ~pnl
       THEN LET nlptr == index(inbuf, NL)
            IN  IF nlptr # 0 THEN SubSeq(inbuf, 1, nlptr - 1) ELSE inbuf
       ELSE inbuf

\* the while loop of lines 369-380 with the stream at offset pos
RECURSIVE ReadLoop(_, _, _, _, _)
ReadLoop(content, pos, on, pn, pnl) ==
  LET inbuf == fgets(content, pos, INBUF)
  IN  IF inbuf = <<>> THEN <<>>
      ELSE ReadEmit(inbuf, on, pn, pnl)
             \o ReadLoop(content, pos + Len(inbuf), on, pn, pnl)

ReadSetting(s, w, pn, pnl) ==
  LET tn == PROC_PATH \o KeyToPath(s)
      on == PathToKey(s)
      e == Fopen(w.fs, tn, "r")
      o == [path |-> tn, mode |-> "r", errno |-> e]
      c == [op |-> "Read", arg |-> s, path |-> tn]
      w0 == Log(w, IF s = <<>> THEN <<<<"ERR_INVALID_KEY", s, 0>>>> ELSE <<>>,
                <<o>>, <<c>>)
  IN  IF e # NOERR
      THEN [rc |-> -1, w |-> Log(w0, <<ErrReading(e, on)>>, <<>>, <<>>)]
      ELSE [rc |-> 0,
            w |-> [w0 EXCEPT !.stdout =
                     @ \o ReadLoop(StreamOf(w.fs, tn), 1, on, pn, pnl)]]

(***************************************************************************)
(* StripLeadingAndTrailingSpaces, sysctl.c:171-189.                        *)
(***************************************************************************)
\* lines 177-181: the trailing blanks overwritten by NUL, never the first char
RECURSIVE StripTrailing(_)
StripTrailing(oneline) ==
  IF oneline = <<>> THEN oneline
  ELSE IF oneline[Len(oneline)] \in {SP, TAB, NL, CR} /\ Len(oneline) # 1
       THEN StripTrailing(SubSeq(oneline, 1, Len(oneline) - 1))
       ELSE oneline

\* lines 183-186: the returned pointer, past the leading spaces and tabs
RECURSIVE StripLeading(_)
StripLeading(t) ==
  IF t # <<>> /\ t[1] \in {SP, TAB} THEN StripLeading(Tail(t)) ELSE t

StripLeadingAndTrailingSpaces(oneline) == StripLeading(StripTrailing(oneline))

(***************************************************************************)
(* Preload, sysctl.c:198-244.                                              *)
(***************************************************************************)
ONELINE == 256

\* strtok on the C string s: leading delimiters are skipped; null says that
\* NULL is returned; rest is where the next strtok(NULL, ...) resumes
RECURSIVE SkipDelims(_, _)
SkipDelims(s, delims) ==
  IF s # <<>> /\ s[1] \in delims THEN SkipDelims(Tail(s), delims) ELSE s

strtok(s, delims) ==
  LET b == SkipDelims(s, delims)
      hits == {j \in 1..Len(b) : b[j] \in delims}
  IN  IF b = <<>> THEN [null |-> TRUE, tok |-> <<>>, rest |-> <<>>]
      ELSE IF hits = {} THEN [null |-> FALSE, tok |-> b, rest |-> <<>>]
      ELSE [null |-> FALSE, tok |-> SubSeq(b, 1, Min(hits) - 1),
            rest |-> From(b, Min(hits) + 1)]

\* the while loop of lines 211-241 with the stream at offset pos and n lines read
RECURSIVE PreloadLoop(_, _, _, _, _, _, _)
PreloadLoop(filename, content, pos, n, w, pn, pnl) ==
  LET oneline == fgets(content, pos, ONELINE)
      next == pos + Len(oneline)
      t == StripLeadingAndTrailingSpaces(oneline)
      nametok == strtok(t, {EQ})
      name == StripTrailing(nametok.tok)
      valuetok == strtok(nametok.rest, {NL, CR})
      value == StripLeading(valuetok.tok)
      warned == Log(w, <<<<"WARN_BAD_LINE", filename, n + 1>>>>, <<>>, <<>>)
  IN  IF oneline = <<>> THEN w
      ELSE IF Len(t) < 2 THEN PreloadLoop(filename, content, next, n + 1, w, pn, pnl)
      ELSE IF t[1] \in {"#", ";"}
      THEN PreloadLoop(filename, content, next, n + 1, w, pn, pnl)
      ELSE IF nametok.null \/ nametok.tok = <<>>
      THEN PreloadLoop(filename, content, next, n + 1, warned, pn, pnl)
      ELSE IF valuetok.null \/ valuetok.tok = <<>>
      THEN PreloadLoop(filename, content, next, n + 1, warned, pn, pnl)
      ELSE PreloadLoop(filename, content, next, n + 1,
                       WriteSetting(name \o <<EQ>> \o value, w, pn, pnl).w, pn, pnl)

Preload(filename, w, pn, pnl) ==
  LET e == Fopen(w.fs, filename, "r")
      o == [path |-> filename, mode |-> "r", errno |-> e]
  IN  IF e # NOERR
      THEN Log(w, <<<<"ERR_PRELOAD_FILE", filename, 0>>>>, <<o>>, <<>>)
      ELSE PreloadLoop(filename, StreamOf(w.fs, filename), 1, 0,
                       Log(w, <<>>, <<o>>, <<>>), pn, pnl)

(***************************************************************************)
(* DisplayAll, sysctl.c:395-430.                                           *)
(***************************************************************************)
\* a | b on two's-complement integers
RECURSIVE BitOr(_, _)
BitOr(a, b) ==
  IF a = 0 THEN b
  ELSE IF b = 0 THEN a
  ELSE IF a = -1 \/ b = -1 THEN -1
  ELSE (IF a % 2 = 1 \/ b % 2 = 1 THEN 1 ELSE 0) + 2 * BitOr(a \div 2, b \div 2)

\* errno of opendir(path), NOERR when a directory stream is returned
Opendir(fsys, path) ==
  LET c == Canon(path)
  IN  IF c \notin DOMAIN fsys THEN ENOENT
      ELSE IF fsys[c].err # NOERR THEN fsys[c].err
      ELSE IF fsys[c].type # "dir" THEN ENOTDIR
      ELSE NOERR

\* the return code of stat(path, &ts)
Stat(fsys, path) ==
  LET c == Canon(path)
  IN  IF c \notin DOMAIN fsys \/ fsys[c].statfail THEN -1 ELSE 0

S_ISDIR(fsys, path) == fsys[Canon(path)].type = "dir"

\* DisplayAllLoop is the while loop of lines 410-425 with the directory stream
\* at entry i; lines 409 start it at the third entry.  ShowTableUtil is passed
\* down and never read, and is left out.
RECURSIVE DisplayAll(_, _, _, _)
RECURSIVE DisplayAllLoop(_, _, _, _, _, _, _)
DisplayAllLoop(path, entries, i, rc0, w, pn, pnl) ==
  IF i > Len(entries) THEN [rc |-> rc0, w |-> w]
  ELSE LET tmpdir == path \o entries[i]
           visit == [op |-> "Visit", arg |-> tmpdir, path |-> <<>>]
       IN  IF Stat(w.fs, tmpdir) # 0
           THEN DisplayAllLoop(path, entries, i + 1, rc0,
                  Log(w, <<<<"perror", tmpdir, ENOENT>>>>, <<>>, <<>>), pn, pnl)
           ELSE IF S_ISDIR(w.fs, tmpdir)
           THEN DisplayAllLoop(path, entries, i + 1, rc0,
                  DisplayAll(tmpdir \o <<SLASH>>, w, pn, pnl).w, pn, pnl)
           ELSE LET r == ReadSetting(From(tmpdir, Len(PROC_PATH) + 1),
                                     Log(w, <<>>, <<>>, <<visit>>), pn, pnl)
                IN  DisplayAllLoop(path, entries, i + 1, BitOr(rc0, r.rc), r.w,
                                   pn, pnl)

DisplayAll(path, w, pn, pnl) ==
  LET e == Opendir(w.fs, path)
      o == [path |-> path, mode |-> "dir", errno |-> e]
  IN  IF e # NOERR
      THEN [rc |-> -1, w |-> Log(w, <<<<"ERR_OPENING_DIR", path, 0>>>>, <<o>>, <<>>)]
      ELSE DisplayAllLoop(path, w.fs[Canon(path)].entries, 3, 0,
                          Log(w, <<>>, <<o>>, <<>>), pn, pnl)

(***************************************************************************)
(* The filesystems of the checks: under /proc/sys every directory holds    *)
(* the files b and a.b and, down to depth MaxDepth, the subdirectory a;    *)
(* readdir returns . and .. first, as procfs does.  The preload source is  *)
(* /etc/sysctl.conf.                                                       *)
(***************************************************************************)
RECURSIVE Dir(_)
Dir(d) == IF d = 0 THEN Canon(PROC_PATH) ELSE Dir(d - 1) \o <<SLASH, "a">>

FileB(d) == Dir(d) \o <<SLASH, "b">>
FileAB(d) == Dir(d) \o <<SLASH, "a", DOT, "b">>

Dirs == {Dir(d) : d \in 0..MaxDepth}
Files == {FileB(d) : d \in 0..MaxDepth} \cup {FileAB(d) : d \in 0..MaxDepth}
Paths == Dirs \cup Files

Depth(path) == CHOOSE d \in 0..MaxDepth : path \in {Dir(d), FileB(d), FileAB(d)}

DirEntries(d) ==
  <<<<DOT>>, <<DOT, DOT>>, <<"b">>>>
    \o (IF d < MaxDepth THEN <<<<"a">>>> ELSE <<>>)
    \o <<<<"a", DOT, "b">>>>

OneLine == <<"1", NL>>

\* the tree where opening a path of acc fails with EACCES, one of io with EIO,
\* stat fails on the paths of st, and the file /proc/sys/b holds content
MkFs(content, acc, io, st) ==
  [path \in Paths |->
    [type |-> IF path \in Dirs THEN "dir" ELSE "file",
     err |-> IF path \in acc THEN EACCES ELSE IF path \in io THEN EIO ELSE NOERR,
     statfail |-> path \in st,
     content |-> IF path = FileB(0) THEN content
                 ELSE IF path \in Files THEN OneLine ELSE <<>>,
     entries |-> IF path \in Dirs THEN DirEntries(Depth(path)) ELSE <<>>]]

\* the same with a preload source
WithPreload(fsys, source) ==
  [path \in DOMAIN fsys \cup {DEFAULT_PRELOAD} |->
    IF path = DEFAULT_PRELOAD
    THEN [type |-> "file", err |-> NOERR, statfail |-> FALSE,
          content |-> source, entries |-> <<>>]
    ELSE fsys[path]]

\* the display flags main can have set: none, -n, -b
FlagSettings == {<<TRUE, TRUE>>, <<FALSE, TRUE>>, <<FALSE, FALSE>>}

(***************************************************************************)
(* Variable groups: a specification that checks one function leaves the    *)
(* variables of the others at their initial values.                        *)
(***************************************************************************)
worldVars == <<fs, stdout, stderr, opened, calls>>
flagVars == <<PrintName, PrintNewline>>
mainVars == <<argv, argi, SwitchesAllowed, WriteMode, ReturnCode, status>>
nameVars == <<tmpname, outname>>

NoWorld ==
  fs = <<>> /\ stdout = <<>> /\ stderr = <<>> /\ opened = <<>> /\ calls = <<>>
NoMain ==
  /\ argv = <<>> /\ argi = 1 /\ SwitchesAllowed = TRUE /\ WriteMode = FALSE
  /\ ReturnCode = 0 /\ status = 0
NoNames == tmpname = <<>> /\ outname = <<>>
\* main's settings of lines 94-95
DefaultFlags == PrintName = TRUE /\ PrintNewline = TRUE

SetWorld(w) ==
  /\ fs' = w.fs /\ stdout' = w.stdout /\ stderr' = w.stderr
  /\ opened' = w.opened /\ calls' = w.calls
TheWorld ==
  [fs |-> fs, stdout |-> stdout, stderr |-> stderr, opened |-> opened,
   calls |-> calls]

(***************************************************************************)
(* SpecSlashdot: slashdot applied to every string over {a, '.', '/'} of    *)
(* length at most MaxStrLen and to the key net.ipv4.ip_forward: first as   *)
(* KeyToPath, then PathToKey on the result.                                *)
(***************************************************************************)
ExampleKey ==
  <<"n", "e", "t", ".", "i", "p", "v", "4", ".",
    "i", "p", "_", "f", "o", "r", "w", "a", "r", "d">>
ExamplePath ==
  <<"n", "e", "t", "/", "i", "p", "v", "4", "/",
    "i", "p", "_", "f", "o", "r", "w", "a", "r", "d">>

SlashdotInputs == Strings({"a", DOT, SLASH}, MaxStrLen) \cup {ExampleKey}

InitSlashdot ==
  /\ pc = "start"
  /\ setting \in SlashdotInputs
  /\ rc = 0
  /\ NoNames /\ NoWorld /\ NoMain /\ DefaultFlags

\* tmpname = KeyToPath(name), as in sysctl.c:347 and :284
ToPath ==
  /\ pc = "start"
  /\ tmpname' = KeyToPath(setting)
  /\ pc' = "path"
  /\ UNCHANGED <<outname, setting, rc, worldVars, flagVars, mainVars>>

\* the path turned back into a key, as in sysctl.c:351 and :290
ToKey ==
  /\ pc = "path"
  /\ outname' = PathToKey(tmpname)
  /\ pc' = "key"
  /\ UNCHANGED <<tmpname, setting, rc, worldVars, flagVars, mainVars>>

NextSlashdot == ToPath \/ ToKey

SpecSlashdot == InitSlashdot /\ [][NextSlashdot]_vars

\* position i of t is position i of s with '.' and '/' exchanged
Swapped(s, t, i) ==
  t[i] = (IF s[i] = DOT THEN SLASH ELSE IF s[i] = SLASH THEN DOT ELSE s[i])

UniformSwap(s, t) ==
  /\ Len(t) = Len(s)
  /\ \A i \in 1..Len(s) : Swapped(s, t, i)

\* C3 as stated: KeyToPath is a uniform swap of '.' and '/' over the whole
\* string, for every input string (and so leaves a string with neither
\* delimiter unchanged).
C3_UniformSwapAlways ==
  pc = "path" => UniformSwap(setting, tmpname)

\* C3 amended: KeyToPath is the uniform swap when the first delimiter of the
\* string is '.', and returns the string unchanged when its first delimiter
\* is '/' or when it has no delimiter.
C3_SwapUnlessSlashFirst ==
  pc = "path" =>
    LET i == strpbrk(setting, 1)
    IN  /\ Len(tmpname) = Len(setting)
        /\ (i # 0 /\ setting[i] = DOT) => UniformSwap(setting, tmpname)
        /\ (i = 0 \/ CharAt(setting, i) = SLASH) => tmpname = setting

\* KeyToPath has run on a string whose first delimiter is '/', followed by a '.'
C3_Witness ==
  /\ pc = "path"
  /\ strpbrk(setting, 1) # 0
  /\ setting[strpbrk(setting, 1)] = SLASH
  /\ \E j \in 1..Len(setting) : setting[j] = DOT

\* C4: PathToKey(KeyToPath(K)) = K for every key K with no '/', and
\* KeyToPath("net.ipv4.ip_forward") = "net/ipv4/ip_forward".
C4_RoundTrip ==
  /\ (pc = "key" /\ \A j \in 1..Len(setting) : setting[j] # SLASH)
       => outname = setting
  /\ (pc # "start" /\ setting = ExampleKey) => tmpname = ExamplePath

\* a key with two dots and no '/' has gone through KeyToPath and PathToKey
C4_Witness ==
  /\ pc = "key"
  /\ \A j \in 1..Len(setting) : setting[j] # SLASH
  /\ Cardinality({j \in 1..Len(setting) : setting[j] = DOT}) >= 2
  /\ tmpname # setting

(***************************************************************************)
(* SpecWrite: one call of WriteSetting, on every setting over              *)
(* {a, b, '.', '='} of length at most MaxSettingLen, with /proc/sys/b      *)
(* writable, unwritable (EACCES) or failing otherwise (EIO).               *)
(***************************************************************************)
WriteInputs == Strings({"a", "b", DOT, EQ}, MaxSettingLen)

InitWrite ==
  /\ pc = "start"
  /\ setting \in WriteInputs
  /\ \E acc \in {{}, {FileB(0)}}, io \in {{}, {FileB(0)}} :
        /\ acc \cap io = {}
        /\ fs = MkFs(OneLine, acc, io, {})
  /\ stdout = <<>> /\ stderr = <<>> /\ opened = <<>> /\ calls = <<>>
  /\ \E f \in FlagSettings : PrintName = f[1] /\ PrintNewline = f[2]
  /\ rc = 0
  /\ NoNames /\ NoMain

CallWriteSetting ==
  /\ pc = "start"
  /\ LET r == WriteSetting(setting, TheWorld, PrintName, PrintNewline)
     IN  SetWorld(r.w) /\ rc' = r.rc
  /\ pc' = "done"
  /\ UNCHANGED <<setting, flagVars, mainVars, nameVars>>

NextWrite == CallWriteSetting

SpecWrite == InitWrite /\ [][NextWrite]_vars

\* the setting has no '=', or nothing before or after its first '='
Malformed(s) ==
  \/ \A j \in 1..Len(s) : s[j] # EQ
  \/ \E j \in 1..Len(s) :
        /\ s[j] = EQ
        /\ \A k \in 1..(j - 1) : s[k] # EQ
        /\ (j = 1 \/ j = Len(s))

\* the name of a well-formed setting: what precedes its first '='
NameOf(s) == SubSeq(s, 1, index(s, EQ) - 1)

\* the setting is well-formed and the file of its name cannot be opened
Unopenable(s, fsys) ==
  /\ ~Malformed(s)
  /\ Fopen(fsys, PROC_PATH \o KeyToPath(NameOf(s)), "w") # NOERR

\* C8: a Write of a malformed setting returns nonzero without opening any
\* file, a Write of a well-formed setting whose path cannot be opened returns
\* nonzero, and in both cases nothing is printed to stdout and no file of the
\* filesystem changes.
C8_FailedWriteNoEffect ==
  [][(pc = "start" /\ pc' = "done"
        /\ (Malformed(setting) \/ Unopenable(setting, fs)))
      => /\ rc' # 0
         /\ stdout' = stdout
         /\ fs' = fs
         /\ Malformed(setting) => opened' = opened]_vars

\* a Write of a well-formed setting has failed on a file that cannot be opened
C8_Witness ==
  /\ pc = "done"
  /\ ~Malformed(setting)
  /\ rc # 0
  /\ Len(opened) = 1
  /\ opened[1].errno = EACCES

(***************************************************************************)
(* SpecRead: one call of ReadSetting under each display-flag setting, on   *)
(* /proc/sys/b holding every content over {1, newline} of length at most   *)
(* MaxContentLen, and on a few other keys.                                 *)
(***************************************************************************)
ReadInputs ==
  {<<>>, <<"b">>, <<"a", DOT, "b">>, <<"a", SLASH, "b">>, <<"c">>, <<"a">>}

InitRead ==
  /\ pc = "start"
  /\ setting \in ReadInputs
  /\ \E content \in Strings({"1", NL}, MaxContentLen),
        acc \in {{}, {FileB(0)}} :
        fs = MkFs(content, acc, {}, {})
  /\ stdout = <<>> /\ stderr = <<>> /\ opened = <<>> /\ calls = <<>>
  /\ \E f \in FlagSettings : PrintName = f[1] /\ PrintNewline = f[2]
  /\ rc = 0
  /\ NoNames /\ NoMain

CallReadSetting ==
  /\ pc = "start"
  /\ LET r == ReadSetting(setting, TheWorld, PrintName, PrintNewline)
     IN  SetWorld(r.w) /\ rc' = r.rc
  /\ pc' = "done"
  /\ UNCHANGED <<setting, flagVars, mainVars, nameVars>>

NextRead == CallReadSetting

SpecRead == InitRead /\ [][NextRead]_vars

\* the physical lines of a file: each ends with its newline, except possibly
\* the last
RECURSIVE PhysLines(_)
PhysLines(content) ==
  IF content = <<>> THEN <<>>
  ELSE LET n == index(content, NL)
       IN  IF n = 0 THEN <<content>>
           ELSE <<SubSeq(content, 1, n)>> \o PhysLines(From(content, n + 1))

RECURSIVE Prefixed(_, _)
Prefixed(key, lines) ==
  IF lines = <<>> THEN <<>>
  ELSE key \o <<SP, EQ, SP>> \o Head(lines) \o Prefixed(key, Tail(lines))

\* the content without the line terminator of its last line
WithoutFinalNewline(content) ==
  IF content # <<>> /\ content[Len(content)] = NL
  THEN SubSeq(content, 1, Len(content) - 1) ELSE content

\* C9 as stated: a successful Read prints, with -n, every physical line
\* unprefixed with its terminator; with -b, every line unprefixed, the
\* terminator suppressed on the final line only; with neither flag, every
\* physical line as 'key = line'.
C9_ReadFormat ==
  (pc = "done" /\ rc = 0) =>
    LET content == StreamOf(fs, PROC_PATH \o KeyToPath(setting))
    IN  stdout = (IF PrintName
                  THEN Prefixed(PathToKey(setting), PhysLines(content))
                  ELSE IF PrintNewline THEN content
                  ELSE WithoutFinalNewline(content))

(***************************************************************************)
(* SpecPreload: one call of Preload on /etc/sysctl.conf holding every line *)
(* over {a, '=', ' ', '#'} of length at most MaxLineLen, alone, after a    *)
(* comment and a blank line, and before a well-formed line; and holding    *)
(* the four lines # comment, (blank), foo.bar = 42, badline.               *)
(***************************************************************************)
CommentLine == <<"#", SP, "c", "o", "m", "m", "e", "n", "t">>
GoodLine == <<"f", "o", "o", DOT, "b", "a", "r", SP, EQ, SP, "4", "2">>
BadLine == <<"b", "a", "d", "l", "i", "n", "e">>
ExampleSource == <<CommentLine, <<>>, GoodLine, BadLine>>

\* the bytes of a text file with these lines
RECURSIVE Joined(_)
Joined(lines) ==
  IF lines = <<>> THEN <<>> ELSE Head(lines) \o <<NL>> \o Joined(Tail(lines))

PreloadSources ==
  {ExampleSource} \cup
  {before \o <<line>> \o after :
     before \in {<<>>, <<CommentLine, <<>>>>},
     line \in Strings({"a", EQ, SP, "#"}, MaxLineLen),
     after \in {<<>>, <<GoodLine>>}}

InitPreload ==
  /\ pc = "start"
  /\ setting = DEFAULT_PRELOAD
  /\ \E source \in PreloadSources :
        fs = WithPreload(MkFs(OneLine, {}, {}, {}), Joined(source))
  /\ stdout = <<>> /\ stderr = <<>> /\ opened = <<>> /\ calls = <<>>
  /\ DefaultFlags
  /\ rc = 0
  /\ NoNames /\ NoMain

CallPreload ==
  /\ pc = "start"
  /\ SetWorld(Preload(setting, TheWorld, PrintName, PrintNewline))
  /\ pc' = "done"
  /\ UNCHANGED <<setting, rc, flagVars, mainVars, nameVars>>

NextPreload == CallPreload

SpecPreload == InitPreload /\ [][NextPreload]_vars

\* a string without its leading and trailing whitespace
RECURSIVE Trim(_)
Trim(s) ==
  IF s = <<>> THEN s
  ELSE IF s[1] \in {SP, TAB, NL, CR} THEN Trim(Tail(s))
  ELSE IF s[Len(s)] \in {SP, TAB, NL, CR} THEN Trim(SubSeq(s, 1, Len(s) - 1))
  ELSE s

\* what C7 says of line number n: "skip", "warn" or "write" (of wname=wvalue)
LineRule(line) ==
  LET s == Trim(line)
      e == index(s, EQ)
      wname == IF e = 0 THEN s ELSE Trim(SubSeq(s, 1, e - 1))
      wvalue == IF e = 0 THEN <<>> ELSE Trim(From(s, e + 1))
  IN  IF Len(s) < 2 \/ s[1] \in {"#", ";"} THEN [do |-> "skip", arg |-> <<>>]
      ELSE IF wname = <<>> \/ wvalue = <<>> THEN [do |-> "warn", arg |-> <<>>]
      ELSE [do |-> "write", arg |-> wname \o <<EQ>> \o wvalue]

\* the Writes C7 expects from the lines n.. of a source, in order
RECURSIVE ExpectedWrites(_, _)
ExpectedWrites(lines, n) ==
  IF n > Len(lines) THEN <<>>
  ELSE (IF LineRule(lines[n]).do = "write" THEN <<LineRule(lines[n]).arg>>
        ELSE <<>>) \o ExpectedWrites(lines, n + 1)

\* the line numbers C7 expects a warning for, in order
RECURSIVE ExpectedWarnings(_, _)
ExpectedWarnings(lines, n) ==
  IF n > Len(lines) THEN <<>>
  ELSE (IF LineRule(lines[n]).do = "warn" THEN <<n>> ELSE <<>>)
         \o ExpectedWarnings(lines, n + 1)

WritesDone == [i \in 1..Len(calls) |-> calls[i].arg]
WarningLog == SelectSeq(stderr, LAMBDA m : m[1] = "WARN_BAD_LINE")
WarnedLines == [i \in 1..Len(WarningLog) |-> WarningLog[i][3]]

\* C7 as stated: Preload handles every line of the source: a stripped line
\* shorter than 2 characters or starting with '#' or ';' is skipped silently;
\* a line whose name or value around the first '=' is empty after stripping
\* gives exactly one warning with its 1-based line number and no Write; every
\* other line gives exactly one Write of 'name=value', both stripped.
C7_PreloadLines ==
  pc = "done" =>
    LET lines == PhysLines(StreamOf(fs, DEFAULT_PRELOAD))
    IN  /\ WritesDone = ExpectedWrites(lines, 1)
        /\ WarnedLines = ExpectedWarnings(lines, 1)

(***************************************************************************)
(* SpecDisplayAll: one call of DisplayAll on /proc/sys, on the tree of     *)
(* depth MaxDepth with at most MaxFaults nodes that cannot be opened and   *)
(* at most one entry on which stat fails.                                  *)
(***************************************************************************)
InitDisplayAll ==
  /\ pc = "start"
  /\ setting = PROC_PATH
  /\ \E acc \in SUBSET Paths, st \in SUBSET (Paths \ {Dir(0)}) :
        /\ Cardinality(acc) <= MaxFaults
        /\ Cardinality(st) <= 1
        /\ fs = MkFs(OneLine, acc, {}, st)
  /\ stdout = <<>> /\ stderr = <<>> /\ opened = <<>> /\ calls = <<>>
  /\ DefaultFlags
  /\ rc = 0
  /\ NoNames /\ NoMain

CallDisplayAll ==
  /\ pc = "start"
  /\ LET r == DisplayAll(setting, TheWorld, PrintName, PrintNewline)
     IN  SetWorld(r.w) /\ rc' = r.rc
  /\ pc' = "done"
  /\ UNCHANGED <<setting, flagVars, mainVars, nameVars>>

NextDisplayAll == CallDisplayAll

SpecDisplayAll == InitDisplayAll /\ [][NextDisplayAll]_vars

\* C1 as stated: the status DisplayAll returns for the root is nonzero if any
\* Read or any directory open failed at any depth of the walk, and zero when
\* all of them succeeded.
C1_StatusIsOrOfSubtree ==
  pc = "done" => (rc # 0 <=> \E i \in 1..Len(opened) : opened[i].errno # NOERR)

\* the walk reaches this node: stat succeeds on it and on every directory
\* above it below the root, and every directory above it opens
Reached(path) ==
  /\ ~fs[path].statfail
  /\ \A k \in 0..(Depth(path) - 1) : fs[Dir(k)].err = NOERR /\ ~fs[Dir(k)].statfail
  /\ path \in Files => fs[Dir(Depth(path))].err = NOERR /\ ~fs[Dir(Depth(path))].statfail

\* how often the walk opened this file for reading
TimesRead(path) ==
  Cardinality({i \in 1..Len(opened) :
                 opened[i].mode = "r" /\ Canon(opened[i].path) = path})

\* C6 as stated: the walk skips only . and .. and handles every other entry,
\* a failure skipping that entry alone, so that every regular file under the
\* root that the walk reaches is read exactly once.
C6_EveryFileReadOnce ==
  pc = "done" =>
    /\ \A f \in Files : Reached(f) => TimesRead(f) = 1
    /\ \A i \in 1..Len(calls) :
          calls[i].op = "Visit" =>
            calls[i].arg[Len(calls[i].arg)] # DOT

\* C10 as stated: for every regular entry the walk finds, the path Read opens
\* is exactly the path of that entry.
C10_ReadOpensEntry ==
  pc = "done" =>
    \A i \in 1..Len(calls) :
      calls[i].op = "Visit" => calls[i + 1].path = calls[i].arg

(***************************************************************************)
(* Spec: main, sysctl.c:87-147, one action per iteration of the argument   *)
(* loop, on every vector of at most MaxArgs arguments drawn from Args.     *)
(* /proc/sys/b exists, /proc/sys/c does not, and /etc/sysctl.conf holds    *)
(* the four example lines.                                                 *)
(***************************************************************************)
Args ==
  {<<"-", "n">>, <<"-", "b">>, <<"-", "w">>, <<"-", "p">>, <<"-", "a">>,
   <<"-", "h">>, <<"-", "x">>,
   <<"b">>, <<"c">>, <<"b", EQ, "1">>, <<"c", EQ, "1">>, <<>>}

UsageText == <<"usage">>

\* Usage, sysctl.c:157-164: the text is printed and -1 returned
Usage(w) == [rc |-> -1, w |-> [w EXCEPT !.stdout = @ \o UsageText]]

Init ==
  /\ pc = "main"
  /\ argv \in Strings(Args, MaxArgs)
  /\ argi = 1
  /\ fs = WithPreload(MkFs(OneLine, {}, {}, {}), Joined(ExampleSource))
  /\ stdout = <<>> /\ stderr = <<>> /\ opened = <<>> /\ calls = <<>>
  /\ PrintName = FALSE /\ PrintNewline = FALSE
  /\ SwitchesAllowed = TRUE /\ WriteMode = FALSE /\ ReturnCode = 0
  /\ status = 0
  /\ setting = <<>> /\ rc = 0
  /\ NoNames

\* lines 94-101: the flags are set, and without arguments main returns Usage
Start ==
  /\ pc = "main"
  /\ PrintName' = TRUE /\ PrintNewline' = TRUE
  /\ IF argv = <<>>
     THEN /\ SetWorld(Usage(TheWorld).w)
          /\ status' = Usage(TheWorld).rc
          /\ pc' = "exit"
     ELSE /\ UNCHANGED <<worldVars, status>>
          /\ pc' = "loop"
  /\ UNCHANGED <<argv, argi, SwitchesAllowed, WriteMode, ReturnCode,
                 setting, rc, nameVars>>

\* the loop condition of line 103: argv && *argv && **argv
MoreArgs == argi <= Len(argv) /\ argv[argi] # <<>>

\* line 104
IsSwitch == MoreArgs /\ SwitchesAllowed /\ argv[argi][1] = "-"

\* (*argv)[1]
SwitchChar == CharAt(argv[argi], 2)

\* lines 103 and 146: the loop ends and main returns ReturnCode
LoopEnd ==
  /\ pc = "loop"
  /\ ~MoreArgs
  /\ status' = ReturnCode
  /\ pc' = "exit"
  /\ UNCHANGED <<worldVars, flagVars, argv, argi, SwitchesAllowed, WriteMode,
                 ReturnCode, setting, rc, nameVars>>

\* case 'b', falling through to case 'n': lines 106-112
SwitchB ==
  /\ pc = "loop" /\ IsSwitch /\ SwitchChar = "b"
  /\ PrintNewline' = FALSE
  /\ PrintName' = FALSE
  /\ argi' = argi + 1
  /\ UNCHANGED <<pc, worldVars, argv, SwitchesAllowed, WriteMode, ReturnCode,
                 status, setting, rc, nameVars>>

\* case 'n': lines 110-112
SwitchN ==
  /\ pc = "loop" /\ IsSwitch /\ SwitchChar = "n"
  /\ PrintName' = FALSE
  /\ argi' = argi + 1
  /\ UNCHANGED <<pc, worldVars, PrintNewline, argv, SwitchesAllowed, WriteMode,
                 ReturnCode, status, setting, rc, nameVars>>

\* case 'w': lines 113-116
SwitchW ==
  /\ pc = "loop" /\ IsSwitch /\ SwitchChar = "w"
  /\ SwitchesAllowed' = FALSE
  /\ WriteMode' = TRUE
  /\ argi' = argi + 1
  /\ UNCHANGED <<pc, worldVars, flagVars, argv, ReturnCode, status, setting,
                 rc, nameVars>>

\* case 'p': lines 117-125; the next argument, if any, names the preload file
SwitchP ==
  /\ pc = "loop" /\ IsSwitch /\ SwitchChar = "p"
  /\ argi' = argi + 1
  /\ LET preloadfile == IF argi + 1 <= Len(argv) /\ argv[argi + 1] # <<>>
                        THEN argv[argi + 1] ELSE DEFAULT_PRELOAD
     IN  SetWorld(Preload(preloadfile, TheWorld, PrintName, PrintNewline))
  /\ status' = 0
  /\ pc' = "exit"
  /\ UNCHANGED <<flagVars, argv, SwitchesAllowed, WriteMode, ReturnCode,
                 setting, rc, nameVars>>

\* cases 'a', 'A', 'X': lines 126-130
SwitchA ==
  /\ pc = "loop" /\ IsSwitch /\ SwitchChar \in {"a", "A", "X"}
  /\ SwitchesAllowed' = FALSE
  /\ LET r == DisplayAll(PROC_PATH, TheWorld, PrintName, PrintNewline)
     IN  SetWorld(r.w) /\ status' = r.rc
  /\ pc' = "exit"
  /\ UNCHANGED <<flagVars, argv, argi, WriteMode, ReturnCode, setting, rc,
                 nameVars>>

\* cases 'h', '?': lines 131-133
SwitchH ==
  /\ pc = "loop" /\ IsSwitch /\ SwitchChar \in {"h", "?"}
  /\ SetWorld(Usage(TheWorld).w)
  /\ status' = Usage(TheWorld).rc
  /\ pc' = "exit"
  /\ UNCHANGED <<flagVars, argv, argi, SwitchesAllowed, WriteMode, ReturnCode,
                 setting, rc, nameVars>>

\* default: lines 134-136
SwitchDefault ==
  /\ pc = "loop" /\ IsSwitch
  /\ SwitchChar \notin {"b", "n", "w", "p", "a", "A", "X", "h", "?"}
  /\ LET u == Usage(Log(TheWorld,
                        <<<<"ERR_UNKNOWN_PARAMETER", argv[argi], 0>>>>, <<>>, <<>>))
     IN  SetWorld(u.w) /\ status' = u.rc
  /\ pc' = "exit"
  /\ UNCHANGED <<flagVars, argv, argi, SwitchesAllowed, WriteMode, ReturnCode,
                 setting, rc, nameVars>>

\* lines 139-141 in write mode
WriteArg ==
  /\ pc = "loop" /\ MoreArgs /\ ~IsSwitch /\ WriteMode
  /\ SwitchesAllowed' = FALSE
  /\ LET r == WriteSetting(argv[argi], TheWorld, PrintName, PrintNewline)
     IN  SetWorld(r.w) /\ ReturnCode' = r.rc
  /\ argi' = argi + 1
  /\ UNCHANGED <<pc, flagVars, argv, WriteMode, status, setting, rc, nameVars>>

\* a read-mode branch that leaves the switches enabled
ReadArgKeepsSwitches ==
  /\ pc = "loop" /\ MoreArgs /\ ~IsSwitch /\ ~WriteMode
  /\ SetWorld(ReadSetting(argv[argi], TheWorld, PrintName, PrintNewline).w)
  /\ argi' = argi + 1
  /\ UNCHANGED <<pc, flagVars, argv, SwitchesAllowed, WriteMode, ReturnCode,
                 status, setting, rc, nameVars>>

\* lines 139 and 142 in read mode: the return code of ReadSetting is dropped
ReadArg ==
  /\ pc = "loop" /\ MoreArgs /\ ~IsSwitch /\ ~WriteMode
  /\ SwitchesAllowed' = FALSE
  /\ SetWorld(ReadSetting(argv[argi], TheWorld, PrintName, PrintNewline).w)
  /\ argi' = argi + 1
  /\ UNCHANGED <<pc, flagVars, argv, WriteMode, ReturnCode, status, setting,
                 rc, nameVars>>

Next ==
  \/ Start
  \/ LoopEnd
  \/ SwitchB
  \/ SwitchN
  \/ SwitchW
  \/ SwitchP
  \/ SwitchA
  \/ SwitchH
  \/ SwitchDefault
  \/ WriteArg
  \/ ReadArg

Spec == Init /\ [][Next]_vars

\* the accessor invocations so far, as <<operation, argument>>
Invoked == [i \in 1..Len(calls) |-> <<calls[i].op, calls[i].arg>>]

\* a -n or -b switch
IsDisplayFlag(a) == Len(a) >= 2 /\ a[1] = "-" /\ a[2] \in {"b", "n"}

\* a -w switch
IsWriteFlag(a) == Len(a) >= 2 /\ a[1] = "-" /\ a[2] = "w"

\* the index of the argument that switches flag recognition off: the first
\* argument after the leading display flags, when it is -w or a bare key; 0 if
\* the vector has none
OffAt ==
  LET lead == {i \in 1..Len(argv) : \A j \in 1..(i - 1) : IsDisplayFlag(argv[j])}
      offs == {i \in lead : argv[i] # <<>> /\ (argv[i][1] # "-" \/ IsWriteFlag(argv[i]))}
  IN  IF offs = {} THEN 0 ELSE Min(offs)

\* the write-mode vector holds no empty argument
WriteRun ==
  /\ OffAt # 0
  /\ IsWriteFlag(argv[OffAt])
  /\ \A i \in 1..Len(argv) : argv[i] # <<>>

\* C2 as stated: in write mode every setting is passed to Write in
\* command-line order, also after an earlier one failed, and the exit status
\* is nonzero if at least one of those Writes failed.
C2_WriteStatusAggregates ==
  (pc = "exit" /\ WriteRun) =>
    /\ Invoked = [i \in 1..(Len(argv) - OffAt) |-> <<"Write", argv[OffAt + i]>>]
    /\ (\E i \in (OffAt + 1)..Len(argv) :
          Malformed(argv[i]) \/ Unopenable(argv[i], fs)) => status # 0

\* the arguments from index i on, each passed to the accessor of the mode
Passed(i, op) == [k \in 1..(Len(argv) - i + 1) |-> <<op, argv[i + k - 1]>>]

\* C5 as stated: once a bare key has been processed or -w has been seen,
\* every later argument of the vector is passed to Read (read mode) or Write
\* (write mode), and so the mode and the display flags no longer change.
C5_AllLaterArgsPassed ==
  (pc = "exit" /\ OffAt # 0) =>
    /\ Invoked = (IF IsWriteFlag(argv[OffAt]) THEN Passed(OffAt + 1, "Write")
                  ELSE Passed(OffAt, "Read"))
    /\ WriteMode = IsWriteFlag(argv[OffAt])
    /\ PrintName = (OffAt = 1)
    /\ PrintNewline = (\A j \in 1..(OffAt - 1) : argv[j][2] # "b")

\* C5 amended: once a bare key has been processed or -w has been seen, the
\* mode and the display flags never change, no argument is interpreted as a
\* flag, and every later argument before the first empty argument is passed
\* to Read (read mode) or Write (write mode); the first empty argument, like
\* the end of the vector, ends the processing.
C5_NoFlagsAfterOff ==
  [][(pc = "loop" /\ (calls # <<>> \/ WriteMode)) =>
       /\ WriteMode' = WriteMode
       /\ PrintName' = PrintName
       /\ PrintNewline' = PrintNewline
       /\ IF argi <= Len(argv) /\ argv[argi] # <<>>
          THEN /\ pc' = "loop"
               /\ argi' = argi + 1
               /\ Invoked' = Invoked \o
                    <<<<IF WriteMode THEN "Write" ELSE "Read", argv[argi]>>>>
          ELSE /\ pc' = "exit"
               /\ calls' = calls]_vars

\* an argument starting with '-' has been passed to Read or Write
C5_Witness ==
  \E i \in 1..Len(calls) :
    /\ calls[i].op \in {"Read", "Write"}
    /\ calls[i].arg # <<>>
    /\ calls[i].arg[1] = "-"

=============================================================================
